---- MODULE Spec2Model ----
(***************************************************************************)
(* Model of the eyecite tokenizer (src/src/tokenizers.rs), its extractor   *)
(* registry (src/src/tokenizers/extractors.rs) and the short-citation      *)
(* derivation (src/src/regexes.rs).                                        *)
(*                                                                         *)
(* A text is a sequence of one-character strings; offsets are 0-based and  *)
(* half-open as in the source (one model character stands for one          *)
(* addressable unit of the text).                                          *)
(***************************************************************************)
EXTENDS Integers, Sequences, FiniteSets, TLC

VARIABLES
    text,             \* the input of tokenize
    surfaced,         \* what get_extractors(text) yields, in order
    matches,          \* per extractor: the spans its regex finds in text
    tokens,           \* tokenize: let tokens = self.extract_tokens(text)
    pc,               \* position inside tokenize
    idx,              \* position of the for loop in tokens (1-based)
    offset,           \* tokenize: let mut offset
    last_token,       \* tokenize: let mut last_token: Option<Token>
    all_tokens,       \* tokenize: let mut all_tokens
    citation_tokens,  \* tokenize: let mut citation_tokens
    strings,          \* Ahocorasick.strings: the trigger strings, in the
                      \* iteration order of the HashMap they were keys of
    found,            \* the matches corasick.find_iter(text) yielded
    prev,             \* what the previous tokenize call on this text returned
    calls,            \* tokenize calls finished so far
    dataset,          \* reporters(): the editions of the reference dataset
    next_entry,       \* the edition the population loop is at (1-based)
    editions_by_regex,\* _populate_reporter_extractors: HashMap<ResolvedRegex, Lookup>
    generated,        \* history: the _add_regex calls made so far
    extractors,       \* _populate_reporter_extractors: let mut extractors
    registry,         \* "populating", "built", or "panicked"
    prefilter,        \* result of Ahocorasick::new over the registry
    once,             \* lazy_static EXTRACTORS: state of its Once
    EXTRACTORS,       \* lazy_static EXTRACTORS: 0 unset, else the run that set it
    registry_builds,  \* history: runs of _populate_reporter_extractors
    prefilter_builds, \* history: automatons built by Ahocorasick::new
    tpc,              \* per thread: its position
    observed,         \* per thread: the EXTRACTORS its deref returned
    tokenizer         \* per thread: the Ahocorasick it owns

tokenizeVars == <<text, surfaced, matches, tokens, pc, idx, offset, last_token,
                  all_tokens, citation_tokens>>

ahoVars == <<strings, found, prev, calls>>

buildVars == <<dataset, next_entry, editions_by_regex, generated, extractors,
               registry, prefilter>>

concVars == <<once, EXTRACTORS, registry_builds, prefilter_builds, tpc, observed,
              tokenizer>>

vars == <<tokenizeVars, ahoVars, buildVars, concVars>>

----------------------------------------------------------------------------
(* Bounds of the generic tokenizer specification.                          *)

MaxLen == 3          \* longest input text
MaxSurfaced == 2     \* most extractors get_extractors yields for one text
MaxMatches == 2      \* most matches one extractor finds in one text

Chars == {"a", " "}

\* The two extractors of the generic specification and their token factories.
Extractors == {1, 2}

RECURSIVE SeqsUpTo(_, _)
SeqsUpTo(S, n) ==
    IF n = 0 THEN {<<>>}
    ELSE LET shorter == SeqsUpTo(S, n - 1)
         IN shorter \cup {Append(s, x) : s \in {t \in shorter : Len(t) = n - 1}, x \in S}

Spans(n) == {<<s, e>> : s \in 0..n, e \in 0..n} \ {p \in (0..n) \X (0..n) : p[1] >= p[2]}

\* captures_iter yields the matches of one regex left to right, none
\* overlapping another, none empty (every registered pattern's group 1
\* holds at least one character).
IsMatchList(ms) ==
    \A i \in 1..Len(ms) - 1 : ms[i][2] <= ms[i + 1][1]

MatchLists(n) == {ms \in SeqsUpTo(Spans(n), MaxMatches) : IsMatchList(ms)}

----------------------------------------------------------------------------
(* Token data model: src/src/tokenizers/models.rs                          *)

Word(part) == [kind |-> "Word", data |-> part]

Space == [kind |-> "Space"]

IsText(t) == t.kind \in {"Word", "Space"}

TokenStart(t) == t.start

TokenEnd(t) == t.end

MergeSameSpan(self, other) ==
    IF self.kind = other.kind /\ self.start = other.start /\ self.end = other.end
    THEN <<[self EXCEPT !.extra = 10 * self.extra + other.extra]>>
    ELSE <<>>

\* Token::merge: no pair of tokens is ever merged; None is <<>>.
Merge(self, other) == <<>>

TokenFactoryOf(e) == IF e = 1 THEN "Citation" ELSE "StopWord"

\* TokenExtractor::get_token: span and data of capture group 1.
GetToken(kind, e, m, txt) ==
    [kind |-> kind, start |-> m[1], end |-> m[2],
     data |-> SubSeq(txt, m[1] + 1, m[2]), extra |-> e]

----------------------------------------------------------------------------
(* Tokenizer trait: src/src/tokenizers.rs                                  *)

\* extract_tokens: flat_map over the surfaced extractors, each contributing
\* all its matches over the whole text, no sorting, no de-duplication.
RECURSIVE FlatMapTokens(_, _, _, _)
FlatMapTokens(surf, M, K, txt) ==
    IF surf = <<>> THEN <<>>
    ELSE LET e == Head(surf)
         IN [i \in 1..Len(M[e]) |-> GetToken(K[e], e, M[e][i], txt)]
            \o FlatMapTokens(Tail(surf), M, K, txt)

\* text.split(' '): the parts between the space characters.
RECURSIVE SplitSpace(_)
SplitSpace(s) ==
    IF \A i \in 1..Len(s) : s[i] # " " THEN <<s>>
    ELSE LET k == CHOOSE i \in 1..Len(s) :
                    s[i] = " " /\ \A j \in 1..i - 1 : s[j] # " "
         IN <<SubSeq(s, 1, k - 1)>> \o SplitSpace(SubSeq(s, k + 1, Len(s)))

RECURSIVE PushParts(_, _)
PushParts(toks, parts) ==
    IF parts = <<>> THEN toks
    ELSE LET part == Head(parts)
         IN PushParts(IF part # <<>> THEN toks \o <<Word(part), Space>>
                      ELSE Append(toks, Space),
                      Tail(parts))

AppendTextNoPop(toks, s) == PushParts(toks, SplitSpace(s))

\* append_text: push Word/Space for every part, then pop the final Space.
AppendText(toks, s) ==
    LET pushed == PushParts(toks, SplitSpace(s))
    IN SubSeq(pushed, 1, Len(pushed) - 1)

Slice(txt, from, to) == SubSeq(txt, from + 1, to)

\* let tokens = self.extract_tokens(text), for an implementation of
\* get_extractors that yields `surfaced`.
ExtractTokens ==
    /\ pc = "start"
    /\ tokens' = FlatMapTokens(surfaced, matches,
                               [e \in Extractors |-> TokenFactoryOf(e)], text)
    /\ pc' = "loop"
    /\ UNCHANGED <<text, surfaced, matches, idx, offset, last_token,
                   all_tokens, citation_tokens>>
    /\ UNCHANGED <<ahoVars, buildVars, concVars>>

\* citation_tokens.push((all_tokens.len(), token)): the index is taken
\* before the token itself is pushed onto all_tokens.
PushCitationOffByOne(cts, toks, token) == Append(cts, <<Len(toks) + 1, token>>)

PushCitation(cts, toks, token) == Append(cts, <<Len(toks), token>>)

\* `if offset > token.start() { continue; }`
StartsBeforeOffsetUsesEnd(off, token) == off > TokenEnd(token)

StartsBeforeOffset(off, token) == off > TokenStart(token)

\* Token::data: todo!() aborts for Word and Space, so start() and end() do.
DataPanics(t) == IsText(t)

\* &text[from..to] aborts unless from <= to <= text.len().
SlicePanics(txt, from, to) == ~(from <= to /\ to <= Len(txt))

\* One iteration of `for token in tokens`.
TokenizeStep ==
    /\ pc = "loop"
    /\ idx <= Len(tokens)
    /\ LET token == tokens[idx]
           merged == IF last_token # <<>> THEN Merge(last_token[1], token) ELSE <<>>
       IN IF merged # <<>>
          THEN LET popped == SubSeq(all_tokens, 1, Len(all_tokens) - 1)
               IN /\ citation_tokens' =
                        PushCitation(SubSeq(citation_tokens, 1, Len(citation_tokens) - 1),
                                     popped, merged[1])
                  /\ all_tokens' = Append(popped, merged[1])
                  /\ UNCHANGED <<offset, last_token, pc>>
          ELSE IF DataPanics(token)
          THEN /\ pc' = "panicked"
               /\ UNCHANGED <<offset, last_token, all_tokens, citation_tokens>>
          ELSE IF StartsBeforeOffset(offset, token)
          THEN UNCHANGED <<offset, last_token, all_tokens, citation_tokens, pc>>
          ELSE IF /\ offset < TokenStart(token)
                  /\ SlicePanics(text, offset, TokenStart(token))
          THEN /\ pc' = "panicked"
               /\ UNCHANGED <<offset, last_token, all_tokens, citation_tokens>>
          ELSE LET filled == IF offset < TokenStart(token)
                             THEN AppendText(all_tokens,
                                             Slice(text, offset, TokenStart(token)))
                             ELSE all_tokens
               IN /\ citation_tokens' = PushCitation(citation_tokens, filled, token)
                  /\ all_tokens' = Append(filled, token)
                  /\ offset' = TokenEnd(token)
                  /\ last_token' = <<token>>
                  /\ pc' = pc
    /\ idx' = idx + 1
    /\ UNCHANGED <<text, surfaced, matches, tokens>>
    /\ UNCHANGED <<ahoVars, buildVars, concVars>>

\* After the loop: capture plain text after the final match and return.
TokenizeReturn ==
    /\ pc = "loop"
    /\ idx > Len(tokens)
    /\ IF offset < Len(text) /\ SlicePanics(text, offset, Len(text))
       THEN pc' = "panicked" /\ UNCHANGED all_tokens
       ELSE /\ all_tokens' = IF offset < Len(text)
                             THEN AppendText(all_tokens, Slice(text, offset, Len(text)))
                             ELSE all_tokens
            /\ pc' = "done"
    /\ UNCHANGED <<text, surfaced, matches, tokens, idx, offset, last_token,
                   citation_tokens>>
    /\ UNCHANGED <<ahoVars, buildVars, concVars>>

\* The registry construction and the threads, when a specification leaves
\* them out.
BuildIdle ==
    /\ dataset = <<>>
    /\ next_entry = 1
    /\ editions_by_regex = <<>>
    /\ generated = <<>>
    /\ extractors = <<>>
    /\ registry = "populating"
    /\ prefilter = "none"

ConcIdle ==
    /\ once = "incomplete"
    /\ EXTRACTORS = 0
    /\ registry_builds = 0
    /\ prefilter_builds = 0
    /\ tpc = <<>>
    /\ observed = <<>>
    /\ tokenizer = <<>>

TokenizeLocals ==
    /\ tokens = <<>>
    /\ idx = 1
    /\ offset = 0
    /\ last_token = <<>>
    /\ all_tokens = <<>>
    /\ citation_tokens = <<>>

Init ==
    /\ text \in SeqsUpTo(Chars, MaxLen)
    /\ matches \in [Extractors -> MatchLists(Len(text))]
    /\ surfaced \in SeqsUpTo(Extractors, MaxSurfaced)
    /\ TokenizeLocals
    /\ pc = "start"
    /\ strings = <<>>
    /\ found = <<>>
    /\ prev = <<>>
    /\ calls = 0
    /\ BuildIdle
    /\ ConcIdle

Next == ExtractTokens \/ TokenizeStep \/ TokenizeReturn

Spec == Init /\ [][Next]_vars

----------------------------------------------------------------------------
(* Properties of the token stream.                                         *)

CitationRelevant(toks) == SelectSeq(toks, LAMBDA t : ~IsText(t))

RECURSIVE Concat(_)
Concat(toks) ==
    IF toks = <<>> THEN <<>>
    ELSE LET t == Head(toks)
         IN (IF t.kind = "Space" THEN <<" ">> ELSE t.data) \o Concat(Tail(toks))

Emitted(t) == \E k \in 1..Len(citation_tokens) : citation_tokens[k][2] = t

\* C1: the citation-relevant tokens of the full stream never overlap (each
\* one ends at or before the start of the next), every one lies inside the
\* text, and the consumed offset is the end of the token emitted last, so it
\* is at least the end of every token emitted before and never decreases.
C1_NonOverlap ==
    LET cs == CitationRelevant(all_tokens)
    IN /\ \A i \in 1..Len(cs) :
            /\ 0 <= cs[i].start /\ cs[i].start <= cs[i].end /\ cs[i].end <= Len(text)
            /\ cs[i].end <= offset
       /\ \A i \in 1..Len(cs) - 1 : cs[i].end <= cs[i + 1].start
       /\ offset = IF cs = <<>> THEN 0 ELSE cs[Len(cs)].end

\* A finished call that emitted two tokens and discarded an overlapping match.
C1_Witness ==
    /\ pc = "done"
    /\ Len(CitationRelevant(all_tokens)) >= 2
    /\ \E i \in 1..Len(tokens) :
          /\ ~Emitted(tokens[i])
          /\ \E k \in 1..Len(citation_tokens) :
                /\ citation_tokens[k][2].start < tokens[i].end
                /\ tokens[i].start < citation_tokens[k][2].end

\* C2: concatenating the full stream (Word: its text, Space: one space, any
\* other token: its data) gives back the text consumed so far, and the whole
\* text once tokenize has returned; a Word is never empty and holds no space,
\* so each space of a gap is exactly one Space token and none is left over.
C2_Reconstructs ==
    /\ Concat(all_tokens) = Slice(text, 0, IF pc = "done" THEN Len(text) ELSE offset)
    /\ \A i \in 1..Len(all_tokens) :
          /\ all_tokens[i].kind = "Word" =>
                /\ all_tokens[i].data # <<>>
                /\ \A j \in 1..Len(all_tokens[i].data) : all_tokens[i].data[j] # " "
          /\ ~IsText(all_tokens[i]) =>
                all_tokens[i].data = Slice(text, all_tokens[i].start, all_tokens[i].end)

\* A finished call whose text has a gap of a word and a space, or of two
\* spaces, in front of a match.
C2_Witness ==
    /\ pc = "done"
    /\ \E i \in 1..Len(all_tokens) - 2 :
          /\ IsText(all_tokens[i])
          /\ all_tokens[i + 1].kind = "Space"
          /\ ~IsText(all_tokens[i + 2])

\* C3: the indexed list is exactly the non-Word/Space subsequence of the
\* full stream: every pair (i, t) has full_stream[i] = t (0-based i), the
\* indices strictly increase, and every non-Word/Space token of the stream
\* is listed exactly once.
C3_IndexedSubsequence ==
    /\ \A k \in 1..Len(citation_tokens) :
          /\ citation_tokens[k][1] + 1 \in 1..Len(all_tokens)
          /\ all_tokens[citation_tokens[k][1] + 1] = citation_tokens[k][2]
    /\ \A k \in 1..Len(citation_tokens) - 1 :
          citation_tokens[k][1] < citation_tokens[k + 1][1]
    /\ {citation_tokens[k][1] + 1 : k \in 1..Len(citation_tokens)}
          = {i \in 1..Len(all_tokens) : ~IsText(all_tokens[i])}
    /\ Len(citation_tokens) = Len(CitationRelevant(all_tokens))

\* A finished call that lists two tokens, with filler in the stream before
\* the first, and that discarded a match.
C3_Witness ==
    /\ pc = "done"
    /\ Len(citation_tokens) >= 2
    /\ citation_tokens[1][1] > 0
    /\ Len(tokens) > Len(citation_tokens)

\* C4: the matches are processed in ascending order of match start, so in
\* the returned result a match is only ever left out in favour of an emitted
\* token that overlaps it and starts at or before it.
C4_AscendingStart ==
    pc = "done" =>
        \A i \in 1..Len(tokens) :
            Emitted(tokens[i])
            \/ \E k \in 1..Len(citation_tokens) :
                  /\ citation_tokens[k][2].start <= tokens[i].start
                  /\ tokens[i].start < citation_tokens[k][2].end

IsPrefix(a, b) == Len(a) <= Len(b) /\ SubSeq(b, 1, Len(a)) = a

Overlap(t, u) == t.start < u.end /\ u.start < t.end

\* A match of extract_tokens whose span overlaps the span of no other one
\* (the same match returned again is not another one).
Isolated(t) == \A j \in 1..Len(tokens) : tokens[j] = t \/ ~Overlap(tokens[j], t)

\* C16: no isolated match is lost: in the returned result every match of
\* extract_tokens that overlaps no other match is a token of the full stream
\* and of the citation-token list, whatever order the extractors were
\* surfaced in.
C16_NoIsolatedLost ==
    pc = "done" =>
        \A i \in 1..Len(tokens) :
            Isolated(tokens[i]) =>
                /\ Emitted(tokens[i])
                /\ \E k \in 1..Len(all_tokens) : all_tokens[k] = tokens[i]

----------------------------------------------------------------------------
(* The Ahocorasick tokenizer over the fixed extractors of the registry.    *)
(* Texts are drawn from AhoChars, so the registry holds the extractors     *)
(* whose trigger strings can be spelled with these characters.             *)

MaxAhoLen == 3       \* longest input text of the Ahocorasick specification
MaxCalls == 2        \* tokenize calls made on one text

AhoChars == {"v", "V", "§", " ", "\n"}

Min(S) == CHOOSE x \in S : \A y \in S : x <= y

\* \s
IsWhitespace(c) == c \in {" ", "\n"}

\* \S
IsNonWhitespace(c) == ~IsWhitespace(c)

\* [a-zA-Z0-9]
IsAlnum(c) == c \in {"v", "V"}

\* PUNCTUATION_REGEX: [^\sa-zA-Z0-9]
IsPunctuation(c) == ~IsWhitespace(c) /\ ~IsAlnum(c)

\* RegexBuilder::case_insensitive(true): letters compare by their lower case.
Lower(c) == IF c = "V" THEN "v" ELSE c

\* STOP_WORDS: of the eleven stop words, the one spelled with AhoChars.
STOP_WORDS == {<<"v">>}

\* _populate_reporter_extractors: the extractors pushed after the reporter
\* ones (Paragraph, StopWord, Section), in the order they are pushed.
Items ==
    << [token_factory |-> "Paragraph", ignore_case |-> FALSE,
        strings |-> {}, regex |-> "PARAGRAPH_REGEX"],
       [token_factory |-> "StopWord", ignore_case |-> TRUE,
        strings |-> STOP_WORDS, regex |-> "STOP_WORD_REGEX"],
       [token_factory |-> "Section", ignore_case |-> FALSE,
        strings |-> {<<"§">>}, regex |-> "SECTION_REGEX"] >>

InClass(class, c) ==
    IF class = "punctuation" THEN IsPunctuation(c) ELSE IsNonWhitespace(c)

\* The end of the longest run of characters of a class that starts at p
\* (a greedy star over the class).
RunEnd(txt, p, class) ==
    CHOOSE r \in p..Len(txt) :
        /\ \A j \in p..r - 1 : InClass(class, txt[j + 1])
        /\ r = Len(txt) \/ ~InClass(class, txt[r + 1])

WordAt(txt, q, w, ignore_case) ==
    /\ q + Len(w) <= Len(txt)
    /\ \A j \in 1..Len(w) :
          (IF ignore_case THEN Lower(txt[q + j]) ELSE txt[q + j]) = w[j]

\* strip_punctuation_re!((?P<stop_word>...)) followed by (?:\s|$), tried with
\* capture group 1 starting at q.
StopWordGroupAt(txt, q, ignore_case) ==
    LET q2 == RunEnd(txt, q, "punctuation")
        after(w) == RunEnd(txt, q2 + Len(w), "punctuation")
        good == {w \in STOP_WORDS :
                    /\ WordAt(txt, q2, w, ignore_case)
                    /\ after(w) = Len(txt) \/ IsWhitespace(txt[after(w) + 1])}
    IN IF good = {} THEN <<>>
       ELSE LET q4 == after(CHOOSE w \in good : TRUE)
            IN <<[start |-> q, end |-> q4,
                  whole |-> IF q4 < Len(txt) THEN q4 + 1 ELSE q4]>>

\* The match of an extractor's regex that begins at position p, if any:
\* the span of capture group 1 and the end of the whole match.
MatchAt(e, txt, p) ==
    CASE e.regex = "PARAGRAPH_REGEX" ->
            IF p < Len(txt) /\ txt[p + 1] = "\n"
            THEN <<[start |-> p, end |-> p + 1, whole |-> p + 1]>>
            ELSE <<>>
      [] e.regex = "SECTION_REGEX" ->
            LET r == RunEnd(txt, p, "non-whitespace")
            IN IF \E j \in p..r - 1 : txt[j + 1] = "§"
               THEN <<[start |-> p, end |-> r, whole |-> r]>>
               ELSE <<>>
      [] e.regex = "STOP_WORD_REGEX" ->
            LET atStart == IF p = 0 THEN StopWordGroupAt(txt, 0, e.ignore_case)
                           ELSE <<>>
                afterWs == IF p < Len(txt) /\ IsWhitespace(txt[p + 1])
                           THEN StopWordGroupAt(txt, p + 1, e.ignore_case)
                           ELSE <<>>
            IN IF atStart # <<>> THEN atStart ELSE afterWs

\* captures_iter: the leftmost match from pos on, then on from its end.
RECURSIVE CapturesIter(_, _, _)
CapturesIter(e, txt, pos) ==
    LET ps == {p \in pos..Len(txt) : MatchAt(e, txt, p) # <<>>}
    IN IF ps = {} THEN <<>>
       ELSE LET m == MatchAt(e, txt, Min(ps))[1]
            IN <<<<m.start, m.end>>>> \o CapturesIter(e, txt, m.whole)

GetMatches(e, txt) == CapturesIter(e, txt, 0)

\* Ahocorasick::new: the keys of the map from trigger string to extractors.
Keys == UNION {Items[e].strings : e \in 1..Len(Items)}

KeyOrders(S) ==
    {p \in SeqsUpTo(S, Cardinality(S)) :
        Len(p) = Cardinality(S) /\ {p[i] : i \in 1..Len(p)} = S}

\* extractors[s]: the extractors that registered s, in the order of items.
ExtractorsFor(s) ==
    SelectSeq([e \in 1..Len(Items) |-> e], LAMBDA e : s \in Items[e].strings)

\* corasick.find_iter(text): the matches of the automaton built over pats,
\* each with its value (0-based pattern index) and span. The scan reports
\* the first position at which a pattern ends (the longest one ending there)
\* and starts again from that position, so reported matches never overlap.
RECURSIVE FindIter(_, _, _)
FindIter(pats, txt, pos) ==
    LET hits == {h \in (1..Len(pats)) \X (pos + 1..Len(txt)) :
                    /\ h[2] - Len(pats[h[1]]) >= pos
                    /\ Slice(txt, h[2] - Len(pats[h[1]]), h[2]) = pats[h[1]]}
    IN IF hits = {} THEN <<>>
       ELSE LET e == Min({h[2] : h \in hits})
                i == CHOOSE i \in 1..Len(pats) :
                        /\ <<i, e>> \in hits
                        /\ \A j \in 1..Len(pats) :
                              <<j, e>> \in hits => Len(pats[j]) <= Len(pats[i])
            IN <<[value |-> i - 1, start |-> e - Len(pats[i]), end |-> e]>>
               \o FindIter(pats, txt, e)

\* m.value() of every match.
Values(ms) == [k \in 1..Len(ms) |-> ms[k].value]

RECURSIVE FlatMapExtractors(_, _)
FlatMapExtractors(values, strs) ==
    IF values = <<>> THEN <<>>
    ELSE ExtractorsFor(strs[Head(values) + 1]) \o FlatMapExtractors(Tail(values), strs)

\* let strings = extractors.keys().cloned().collect(): the keys of the map,
\* in the iteration order of the HashMap, which is any order.
CollectKeysWithStray == KeyOrders(Keys \cup {<<" ">>})

CollectKeys == KeyOrders(Keys)

\* self.extractors[self.strings[m.value()].as_str()]: indexing the Vec aborts
\* out of range, indexing the HashMap aborts on a key it does not hold.
LookupPanics(strs, value) ==
    ~(value + 1 \in 1..Len(strs) /\ strs[value + 1] \in Keys)

CanonicalKeys == CHOOSE p \in KeyOrders(Keys) : TRUE

GetExtractorsCanonicalKeys(strs, txt) ==
    FlatMapExtractors(Values(FindIter(strs, txt, 0)), CanonicalKeys)

\* Ahocorasick::get_extractors: every automaton match m contributes
\* self.extractors[self.strings[m.value()]].
GetExtractors(strs, txt) ==
    FlatMapExtractors(Values(FindIter(strs, txt, 0)), strs)

\* Ahocorasick::new: strings is the key set in HashMap iteration order,
\* which is any order.
AhocorasickNew ==
    /\ pc = "new"
    /\ strings' \in CollectKeys
    /\ pc' = "start"
    /\ UNCHANGED <<text, surfaced, matches, tokens, idx, offset, last_token,
                   all_tokens, citation_tokens, found, prev, calls>>
    /\ UNCHANGED <<buildVars, concVars>>

\* let tokens = self.extract_tokens(text), for the Ahocorasick tokenizer.
AhoExtractTokens ==
    /\ pc = "start"
    /\ found' = FindIter(strings, text, 0)
    /\ LET values == Values(found')
       IN IF \E i \in 1..Len(values) : LookupPanics(strings, values[i])
          THEN /\ pc' = "panicked"
               /\ UNCHANGED <<surfaced, matches, tokens>>
          ELSE /\ surfaced' = GetExtractors(strings, text)
               /\ matches' = [e \in 1..Len(Items) |-> GetMatches(Items[e], text)]
               /\ tokens' = FlatMapTokens(surfaced', matches',
                                  [e \in 1..Len(Items) |-> Items[e].token_factory],
                                  text)
               /\ pc' = "loop"
    /\ UNCHANGED <<text, idx, offset, last_token, all_tokens, citation_tokens>>
    /\ UNCHANGED <<strings, prev, calls>>
    /\ UNCHANGED <<buildVars, concVars>>

\* A further tokenize call on the same text with the same tokenizer.
CallAgain ==
    /\ pc = "done"
    /\ calls + 1 < MaxCalls
    /\ prev' = <<all_tokens, citation_tokens, strings>>
    /\ calls' = calls + 1
    /\ tokens' = <<>> /\ idx' = 1 /\ offset' = 0 /\ last_token' = <<>>
    /\ all_tokens' = <<>> /\ citation_tokens' = <<>>
    /\ pc' = "start"
    /\ UNCHANGED <<text, surfaced, matches, strings, found>>
    /\ UNCHANGED <<buildVars, concVars>>

\* A further tokenize call on the same text with a tokenizer built anew
\* over the same registry.
RebuildAndCallAgain ==
    /\ pc = "done"
    /\ calls + 1 < MaxCalls
    /\ prev' = <<all_tokens, citation_tokens, strings>>
    /\ calls' = calls + 1
    /\ tokens' = <<>> /\ idx' = 1 /\ offset' = 0 /\ last_token' = <<>>
    /\ all_tokens' = <<>> /\ citation_tokens' = <<>>
    /\ pc' = "new"
    /\ UNCHANGED <<text, surfaced, matches, strings, found>>
    /\ UNCHANGED <<buildVars, concVars>>

AhoInit ==
    /\ text \in SeqsUpTo(AhoChars, MaxAhoLen)
    /\ surfaced = <<>>
    /\ matches = <<>>
    /\ TokenizeLocals
    /\ pc = "new"
    /\ strings = <<>>
    /\ found = <<>>
    /\ prev = <<>>
    /\ calls = 0
    /\ BuildIdle
    /\ ConcIdle

AhoNext ==
    \/ AhocorasickNew
    \/ AhoExtractTokens
    \/ TokenizeStep
    \/ TokenizeReturn
    \/ CallAgain
    \/ RebuildAndCallAgain

SpecAho == AhoInit /\ [][AhoNext]_vars

Surfaced(e) == \E i \in 1..Len(surfaced) : surfaced[i] = e

\* C5: the prefilter is sound: once extract_tokens has run, every extractor
\* whose regex matches somewhere in the text is among the candidates returned
\* by get_extractors, and each of its matches is among the extracted tokens.
C5_PrefilterSound ==
    pc \in {"loop", "done"} =>
        \A e \in 1..Len(Items) :
            \A i \in 1..Len(GetMatches(Items[e], text)) :
                /\ Surfaced(e)
                /\ \E k \in 1..Len(tokens) :
                      /\ tokens[k].extra = e
                      /\ tokens[k].start = GetMatches(Items[e], text)[i][1]
                      /\ tokens[k].end = GetMatches(Items[e], text)[i][2]

\* C6: a tokenize call returns the same full stream and the same indexed
\* list as the previous call on the same text over the same registry,
\* whatever order the trigger strings came out of the hash map in when the
\* prefilter was built.
C6_Deterministic ==
    (pc = "done" /\ prev # <<>>) =>
        /\ all_tokens = prev[1]
        /\ citation_tokens = prev[2]

\* A second call that returned tokens of two extractors from a prefilter
\* whose strings are in another order than for the first call.
C6_Witness ==
    /\ pc = "done"
    /\ prev # <<>>
    /\ prev[3] # strings
    /\ \E j, k \in 1..Len(citation_tokens) :
          citation_tokens[j][2].kind # citation_tokens[k][2].kind

\* C11: tokenize never reaches a panic path: the trigger-string lookup of
\* get_extractors finds the key of every automaton match, start() and end()
\* are only called on tokens that are not Word or Space, and whenever the
\* gap text[offset..start] is sliced, offset <= start <= length of the text.
C11_Total ==
    /\ pc # "panicked"
    /\ pc = "start" =>
          \A i \in 1..Len(FindIter(strings, text, 0)) :
              ~LookupPanics(strings, FindIter(strings, text, 0)[i].value)
    /\ (pc = "loop" /\ idx <= Len(tokens)) =>
          /\ ~DataPanics(tokens[idx])
          /\ ~StartsBeforeOffset(offset, tokens[idx]) =>
                ~SlicePanics(text, offset, TokenStart(tokens[idx]))
    /\ (pc = "loop" /\ idx > Len(tokens)) => ~SlicePanics(text, offset, Len(text))

\* A finished call whose lookup surfaced two candidates, that sliced a gap
\* in front of a token and that discarded a match.
C11_Witness ==
    /\ pc = "done"
    /\ Len(surfaced) >= 2
    /\ Len(tokens) > Len(citation_tokens)
    /\ \E k \in 1..Len(citation_tokens) :
          /\ citation_tokens[k][1] > 0
          /\ IsText(all_tokens[citation_tokens[k][1]])

\* C12: the candidates of one call are a de-duplicated set: no extractor is
\* surfaced twice, and extract_tokens holds no match twice.
C12_Deduplicated ==
    pc \in {"loop", "done"} =>
        /\ \A i, j \in 1..Len(surfaced) : surfaced[i] = surfaced[j] => i = j
        /\ \A i, j \in 1..Len(tokens) : tokens[i] = tokens[j] => i = j

----------------------------------------------------------------------------
(* The prefilter automaton on its own: Ahocorasick::new over items whose   *)
(* trigger strings may contain one another, and one scan of a text.        *)

MaxFindLen == 4      \* longest text scanned

FindChars == {"N", "e", "v", "."}

\* The trigger strings of the items handed to Ahocorasick::new: the stop
\* word "v" and the reporter abbreviation "Nev.".
TriggerPool == {<<"v">>, <<"N", "e", "v", ".">>}

\* Ahocorasick::new(items): strings is the set of trigger strings of the
\* items, in HashMap iteration order.
FindNew ==
    /\ pc = "new"
    /\ \E keys \in (SUBSET TriggerPool) \ {{}} : strings' \in KeyOrders(keys)
    /\ pc' = "built"
    /\ UNCHANGED <<text, surfaced, matches, tokens, idx, offset, last_token,
                   all_tokens, citation_tokens, found, prev, calls>>
    /\ UNCHANGED <<buildVars, concVars>>

\* self.corasick.find_iter(text), run to its end.
FindRun ==
    /\ pc = "built"
    /\ found' = FindIter(strings, text, 0)
    /\ pc' = "found"
    /\ UNCHANGED <<text, surfaced, matches, tokens, idx, offset, last_token,
                   all_tokens, citation_tokens, strings, prev, calls>>
    /\ UNCHANGED <<buildVars, concVars>>

FindInit ==
    /\ text \in SeqsUpTo(FindChars, MaxFindLen)
    /\ surfaced = <<>>
    /\ matches = <<>>
    /\ TokenizeLocals
    /\ pc = "new"
    /\ strings = <<>>
    /\ found = <<>>
    /\ prev = <<>>
    /\ calls = 0
    /\ BuildIdle
    /\ ConcIdle

FindNext == FindNew \/ FindRun

SpecFind == FindInit /\ [][FindNext]_vars

\* An occurrence of trigger string i (1-based) of strs that ends at e.
OccursAt(strs, txt, i, e) ==
    /\ e - Len(strs[i]) >= 0
    /\ e <= Len(txt)
    /\ Slice(txt, e - Len(strs[i]), e) = strs[i]

\* C13: one scan of the automaton yields every occurrence of every trigger
\* string, also one that overlaps or contains an occurrence of another
\* trigger string, and yields them in increasing order of end position.
C13_EveryOccurrence ==
    pc = "found" =>
        /\ \A i \in 1..Len(strings), e \in 1..Len(text) :
              OccursAt(strings, text, i, e) =>
                  \E k \in 1..Len(found) :
                      found[k].value = i - 1 /\ found[k].end = e
        /\ \A k \in 1..Len(found) - 1 : found[k].end <= found[k + 1].end

----------------------------------------------------------------------------
(* Registry construction: _populate_reporter_extractors                    *)
(* (src/src/tokenizers/extractors.rs) and the pattern helpers of           *)
(* src/src/regexes.rs.                                                     *)
(*                                                                         *)
(* A regex template is the sequence of its parts once the variables other  *)
(* than $edition are substituted: "reporter" is (?P<reporter>$edition),    *)
(* "page" is (?P<page>...), "volume" is (?P<volume>\d+), "(" is an         *)
(* unclosed group. A resolved regex is a template together with the names  *)
(* substituted for $edition (escaped and joined with |); regex::escape is  *)
(* one-to-one and keeps a ")" of the name in the pattern text.             *)

MaxEditions == 2     \* most editions in the reference dataset

EditionNames == {"A", "B(n)", ""}

\* Edition values: validity windows.
Editions == {"e1", "e2"}

VariationLists == {<<>>, <<"V">>}

\* "$volume $reporter,? $page": the full_cite template added to the variables.
FullCite == <<"volume", " ", "reporter", ",?", " ", "page">>

\* edition_data.regexes, or [$full_cite] when the edition has none.
RegexLists ==
    { <<FullCite>>,
      <<<<"reporter", " ", "volume">>>>,
      <<<<"volume", " ", "page">>>>,
      <<<<"volume", "(">>>>,
      <<FullCite, <<"reporter", " ", "volume">>>> }

DatasetEntries ==
    [edition_name : EditionNames, edition : Editions,
     regexes : RegexLists, variations : VariationLists]

HasPart(parts, x) == \E i \in 1..Len(parts) : parts[i] = x

\* _substitute_edition followed by resolved(): only a template that holds
\* $edition changes with the names.
SubstituteEdition(template, edition_name) ==
    [parts |-> template,
     names |-> IF HasPart(template, "reporter") THEN edition_name ELSE <<>>]

\* \(\?P<reporter>[^)]+\) matches the reporter group of a regex only if the
\* group's content (the names joined with |) is not empty and holds no ")".
ReporterGroupMatches(names) ==
    /\ \A i \in 1..Len(names) : names[i] # "B(n)"
    /\ ~(Len(names) = 0 \/ (Len(names) = 1 /\ names[1] = ""))

\* replace_all(regex, "$1,? at $2"): every reporter group followed by an
\* optional ",?", a space and the start of the page group.
RECURSIVE ReplaceAll(_, _)
ReplaceAll(parts, ok) ==
    IF parts = <<>> THEN <<>>
    ELSE IF ok /\ Len(parts) >= 4
            /\ SubSeq(parts, 1, 4) = <<"reporter", ",?", " ", "page">>
    THEN <<"reporter", ",?", " ", "at", " ", "page">>
         \o ReplaceAll(SubSeq(parts, 5, Len(parts)), ok)
    ELSE IF ok /\ Len(parts) >= 3 /\ SubSeq(parts, 1, 3) = <<"reporter", " ", "page">>
    THEN <<"reporter", ",?", " ", "at", " ", "page">>
         \o ReplaceAll(SubSeq(parts, 4, Len(parts)), ok)
    ELSE <<Head(parts)>> \o ReplaceAll(Tail(parts), ok)

\* short_cite_re
ShortCiteRe(regex) ==
    [regex EXCEPT !.parts = ReplaceAll(@, ReporterGroupMatches(regex.names))]

\* nonalphanum_boundaries_re
NonalphanumBoundariesRe(regex) ==
    [regex EXCEPT !.parts = <<"(?:^|[^a-zA-Z0-9])(">> \o @ \o <<")(?:[^a-zA-Z0-9]|$)">>]

\* Whether regex::RegexBuilder::build accepts the pattern.
IsValidRegex(regex) == ~HasPart(regex.parts, "(")

DefaultLookup == [editions |-> <<>>, variations |-> <<>>, strings |-> {}, short |-> FALSE]

AddRegexCall(reporters, edition, regex, is_short, list, derived, from) ==
    [reporters |-> reporters, edition |-> edition, regex |-> regex,
     is_short |-> is_short, list |-> list, derived |-> derived, from |-> from]

\* regex.value().contains(&regex::escape(reporters[0].value()))
HasStrings(c) == \E i \in 1..Len(c.regex.names) : c.regex.names[i] = c.reporters[1]

AddRegexOverwrite(result, c) ==
    LET pushed == IF c.list = "editions"
                  THEN [DefaultLookup EXCEPT !.short = c.is_short,
                                             !.editions = Append(@, c.edition)]
                  ELSE [DefaultLookup EXCEPT !.short = c.is_short,
                                             !.variations = Append(@, c.edition)]
    IN [k \in DOMAIN result \cup {c.regex} |-> IF k = c.regex THEN pushed ELSE result[k]]

\* _add_regex: result.entry(regex).or_default(), set short, push the edition
\* on the list func selects, add the reporters as trigger strings.
AddRegex(result, c) ==
    LET entry == IF c.regex \in DOMAIN result THEN result[c.regex] ELSE DefaultLookup
        flagged == [entry EXCEPT !.short = c.is_short]
        pushed == IF c.list = "editions"
                  THEN [flagged EXCEPT !.editions = Append(@, c.edition)]
                  ELSE [flagged EXCEPT !.variations = Append(@, c.edition)]
        final == IF HasStrings(c)
                 THEN [pushed EXCEPT !.strings =
                          @ \cup {c.reporters[i] : i \in 1..Len(c.reporters)}]
                 ELSE pushed
    IN [k \in DOMAIN result \cup {c.regex} |-> IF k = c.regex THEN final ELSE result[k]]

\* The _add_regex calls _add_regexes makes for one template.
TemplateCalls(template, edition_name, edition, variations) ==
    LET regex == SubstituteEdition(template, <<edition_name>>)
        short_regex == ShortCiteRe(regex)
        variation_regex == SubstituteEdition(template, variations)
        short_variation_regex == ShortCiteRe(variation_regex)
    IN << AddRegexCall(<<edition_name>>, edition, regex, FALSE, "editions", FALSE, regex),
          AddRegexCall(<<edition_name>>, edition, short_regex, TRUE, "editions", TRUE, regex) >>
       \o (IF variations # <<>>
           THEN << AddRegexCall(variations, edition, variation_regex, FALSE,
                                "variations", FALSE, variation_regex),
                   AddRegexCall(variations, edition, short_variation_regex, FALSE,
                                "variations", TRUE, variation_regex) >>
           ELSE <<>>)

\* _add_regexes: for template in regex_templates.
RECURSIVE AddRegexesCalls(_, _, _, _)
AddRegexesCalls(regex_templates, edition_name, edition, variations) ==
    IF regex_templates = <<>> THEN <<>>
    ELSE TemplateCalls(Head(regex_templates), edition_name, edition, variations)
         \o AddRegexesCalls(Tail(regex_templates), edition_name, edition, variations)

RECURSIVE ApplyCalls(_, _)
ApplyCalls(result, cs) ==
    IF cs = <<>> THEN result ELSE ApplyCalls(AddRegex(result, Head(cs)), Tail(cs))

\* Some enumeration of a set: the order a HashMap hands out its entries.
RECURSIVE IterationOrder(_)
IterationOrder(S) ==
    IF S = {} THEN <<>>
    ELSE LET x == CHOOSE x \in S : TRUE IN <<x>> \o IterationOrder(S \ {x})

\* TokenExtractor::new for one entry of editions_by_regex.
ReporterExtractor(regex, lookup) ==
    [regex |-> NonalphanumBoundariesRe(regex), token_factory |-> "Citation",
     ignore_case |-> FALSE, strings |-> lookup.strings,
     extra |-> [exact_editions |-> lookup.editions,
                variation_editions |-> lookup.variations,
                short |-> lookup.short]]

FixedExtractor(regex, token_factory, ignore_case, strs) ==
    [regex |-> [parts |-> <<regex>>, names |-> <<>>], token_factory |-> token_factory,
     ignore_case |-> ignore_case, strings |-> strs,
     extra |-> [exact_editions |-> <<>>, variation_editions |-> <<>>, short |-> FALSE]]

\* The five extractors pushed after the reporter ones.
FixedExtractors ==
    << FixedExtractor("ID_REGEX", "Id", TRUE, {"id.", "ibid."}),
       FixedExtractor("SUPRA_REGEX", "Supra", TRUE, {"supra"}),
       FixedExtractor("PARAGRAPH_REGEX", "Paragraph", FALSE, {}),
       FixedExtractor("STOP_WORD_REGEX", "StopWord", TRUE,
                      {"v", "re", "parte", "denied", "citing", "aff'd", "affirmed",
                       "remanded", "see", "granted", "dismissed"}),
       FixedExtractor("SECTION_REGEX", "Section", FALSE, {"§"}) >>

\* One iteration of the loop over the editions of the dataset: _add_regexes.
AddRegexes ==
    /\ registry = "populating"
    /\ next_entry <= Len(dataset)
    /\ LET d == dataset[next_entry]
           cs == AddRegexesCalls(d.regexes, d.edition_name, d.edition, d.variations)
       IN /\ editions_by_regex' = ApplyCalls(editions_by_regex, cs)
          /\ generated' = generated \o cs
    /\ next_entry' = next_entry + 1
    /\ UNCHANGED <<dataset, extractors, registry, prefilter>>
    /\ UNCHANGED <<tokenizeVars, ahoVars, concVars>>

\* "Add each regex to EXTRACTORS", then the fixed extractors.
\* TokenExtractor::new unwraps the regex build with expect: a pattern the
\* regex crate rejects aborts the construction.
BuildExtractors ==
    /\ registry = "populating"
    /\ next_entry > Len(dataset)
    /\ IF \E regex \in DOMAIN editions_by_regex :
             ~IsValidRegex(NonalphanumBoundariesRe(regex))
       THEN /\ registry' = "panicked"
            /\ UNCHANGED extractors
       ELSE /\ registry' = "built"
            /\ extractors' =
                 LET order == IterationOrder(DOMAIN editions_by_regex)
                 IN [i \in 1..Len(order) |->
                        ReporterExtractor(order[i], editions_by_regex[order[i]])]
                    \o FixedExtractors
    /\ UNCHANGED <<dataset, next_entry, editions_by_regex, generated, prefilter>>
    /\ UNCHANGED <<tokenizeVars, ahoVars, concVars>>

\* Ahocorasick::new(EXTRACTORS.as_slice()): the automaton builder rejects an
\* empty pattern, and `?` returns that as EyeciteError::AhocorasickError.
PrefilterNew ==
    /\ registry = "built"
    /\ prefilter = "none"
    /\ prefilter' =
         IF "" \in UNION {extractors[i].strings : i \in 1..Len(extractors)}
         THEN "AhocorasickError"
         ELSE "Ok"
    /\ UNCHANGED <<dataset, next_entry, editions_by_regex, generated, extractors,
                   registry>>
    /\ UNCHANGED <<tokenizeVars, ahoVars, concVars>>

TokenizeIdle ==
    /\ text = <<>>
    /\ surfaced = <<>>
    /\ matches = <<>>
    /\ TokenizeLocals
    /\ pc = "idle"
    /\ strings = <<>>
    /\ found = <<>>
    /\ prev = <<>>
    /\ calls = 0

BuildInit ==
    /\ dataset \in SeqsUpTo(DatasetEntries, MaxEditions)
    /\ next_entry = 1
    /\ editions_by_regex = <<>>
    /\ generated = <<>>
    /\ extractors = <<>>
    /\ registry = "populating"
    /\ prefilter = "none"
    /\ TokenizeIdle
    /\ ConcIdle

BuildNext == AddRegexes \/ BuildExtractors \/ PrefilterNew

SpecBuild == BuildInit /\ [][BuildNext]_vars

\* C7: short-citation derivation never hands back its input unchanged as if
\* it were a short-citation pattern: a pattern without a reporter group
\* followed by a page group is refused, so every pattern that was derived
\* and added differs from the pattern it was derived from.
C7_DerivationFails ==
    \A g \in 1..Len(generated) :
        generated[g].derived => generated[g].regex # generated[g].from

\* C8: neither construction aborts: registry construction never panics on a
\* pattern that is not a valid regular expression, and a prefilter is only
\* returned when the automaton could be built.
C8_TypedBuildErrors ==
    /\ registry # "panicked"
    /\ prefilter = "Ok" =>
          "" \notin UNION {extractors[i].strings : i \in 1..Len(extractors)}

Count(seq, x) == Cardinality({i \in 1..Len(seq) : seq[i] = x})

ReporterExtractors == {i \in 1..Len(extractors) : extractors[i].token_factory = "Citation"}

Generations(regex, list, edition) ==
    {g \in 1..Len(generated) :
        /\ NonalphanumBoundariesRe(generated[g].regex) = regex
        /\ generated[g].list = list
        /\ generated[g].edition = edition}

C15_ShortFlag ==
    registry = "built" =>
        \A i \in ReporterExtractors :
            extractors[i].extra.short
                <=> \E g \in 1..Len(generated) :
                       /\ generated[g].derived
                       /\ NonalphanumBoundariesRe(generated[g].regex)
                             = extractors[i].regex

----------------------------------------------------------------------------
(* Threads using the lazily built registry, as tests::tokenize does:       *)
(* Ahocorasick::new(EXTRACTORS.as_slice()), then tokenize / extract_tokens.*)
(* EXTRACTORS is a lazy_static: its first dereference runs                 *)
(* _populate_reporter_extractors under a Once; a dereference made while    *)
(* that runs waits for it.                                                 *)

NumThreads == 3      \* threads of the process

Threads == 1..NumThreads

NoTokenizer == [items |-> 0, id |-> 0]

DerefBeginUnguarded(t) ==
    /\ tpc[t] = "deref"
    /\ once \in {"incomplete", "running"}
    /\ once' = "running"
    /\ tpc' = [tpc EXCEPT ![t] = "init"]
    /\ UNCHANGED <<EXTRACTORS, registry_builds, prefilter_builds, observed, tokenizer>>
    /\ UNCHANGED <<tokenizeVars, ahoVars, buildVars>>

\* First dereference of EXTRACTORS: Once::call_once lets exactly one thread
\* in to run the initializer.
DerefBegin(t) ==
    /\ tpc[t] = "deref"
    /\ once = "incomplete"
    /\ once' = "running"
    /\ tpc' = [tpc EXCEPT ![t] = "init"]
    /\ UNCHANGED <<EXTRACTORS, registry_builds, prefilter_builds, observed, tokenizer>>
    /\ UNCHANGED <<tokenizeVars, ahoVars, buildVars>>

\* The initializer: EXTRACTORS = _populate_reporter_extractors().
RunInitializer(t) ==
    /\ tpc[t] = "init"
    /\ registry_builds' = registry_builds + 1
    /\ EXTRACTORS' = registry_builds + 1
    /\ once' = "complete"
    /\ tpc' = [tpc EXCEPT ![t] = "deref"]
    /\ UNCHANGED <<prefilter_builds, observed, tokenizer>>
    /\ UNCHANGED <<tokenizeVars, ahoVars, buildVars>>

\* A dereference once the Once is complete returns the stored registry.
DerefReturn(t) ==
    /\ tpc[t] = "deref"
    /\ once = "complete"
    /\ observed' = [observed EXCEPT ![t] = EXTRACTORS]
    /\ tpc' = [tpc EXCEPT ![t] = "new"]
    /\ UNCHANGED <<once, EXTRACTORS, registry_builds, prefilter_builds, tokenizer>>
    /\ UNCHANGED <<tokenizeVars, ahoVars, buildVars>>

\* Ahocorasick::new(items): every call builds an automaton of its own.
AhocorasickNewBy(t) ==
    /\ tpc[t] = "new"
    /\ prefilter_builds' = prefilter_builds + 1
    /\ tokenizer' = [tokenizer EXCEPT ![t] =
                        [items |-> observed[t], id |-> prefilter_builds + 1]]
    /\ tpc' = [tpc EXCEPT ![t] = "tokenize"]
    /\ UNCHANGED <<once, EXTRACTORS, registry_builds, observed>>
    /\ UNCHANGED <<tokenizeVars, ahoVars, buildVars>>

\* tokenizer.tokenize(text): takes &self and only reads it.
TokenizeBy(t) ==
    /\ tpc[t] = "tokenize"
    /\ tpc' = [tpc EXCEPT ![t] = "extract"]
    /\ UNCHANGED <<once, EXTRACTORS, registry_builds, prefilter_builds, observed,
                   tokenizer>>
    /\ UNCHANGED <<tokenizeVars, ahoVars, buildVars>>

\* tokenizer.extract_tokens(text): takes &self and only reads it.
ExtractTokensBy(t) ==
    /\ tpc[t] = "extract"
    /\ tpc' = [tpc EXCEPT ![t] = "done"]
    /\ UNCHANGED <<once, EXTRACTORS, registry_builds, prefilter_builds, observed,
                   tokenizer>>
    /\ UNCHANGED <<tokenizeVars, ahoVars, buildVars>>

ConcInit ==
    /\ once = "incomplete"
    /\ EXTRACTORS = 0
    /\ registry_builds = 0
    /\ prefilter_builds = 0
    /\ tpc = [t \in Threads |-> "deref"]
    /\ observed = [t \in Threads |-> 0]
    /\ tokenizer = [t \in Threads |-> NoTokenizer]
    /\ TokenizeIdle
    /\ BuildIdle

ConcNext ==
    \E t \in Threads :
        \/ DerefBegin(t)
        \/ RunInitializer(t)
        \/ DerefReturn(t)
        \/ AhocorasickNewBy(t)
        \/ TokenizeBy(t)
        \/ ExtractTokensBy(t)

SpecConc == ConcInit /\ [][ConcNext]_vars

HasTokenizer(t) == tpc[t] \in {"tokenize", "extract", "done"}

====
